---------------------------- MODULE Spec2Model ----------------------------
(***************************************************************************)
(* Model of the indexing-and-retrieval core of bill_chat_v2:               *)
(*   - WindowChunker  (src/window_chunker.py)          collection of bills *)
(*   - EOChunker      (src/chunk_executive_orders.py)  executive orders    *)
(*   - BillEmbedder   (src/embedding.py)               in-memory index     *)
(*   - ExecutiveOrderQuerier (src/query_executive_orders.py)               *)
(*                                                                         *)
(* A text is a sequence of one-character strings.  Python indices are      *)
(* 0-based and slices are half open; the operators below keep the Python   *)
(* conventions and convert at the point of access.                         *)
(***************************************************************************)
EXTENDS Integers, Sequences, FiniteSets, TLC

NL == "\n"
FF == "\f"
SP == " "

\* characters str.strip() and the regex class \s treat as whitespace
IsSpace(c) == c \in {SP, NL, FF, "\t"}

SetMin(S) == CHOOSE x \in S : \A y \in S : x <= y
SetMax(S) == CHOOSE x \in S : \A y \in S : x >= y
Min2(a, b) == IF a <= b THEN a ELSE b
Max2(a, b) == IF a >= b THEN a ELSE b

\* text[start:end] for 0 <= start, end (end is clipped to len(text))
Slice(text, start, end) == SubSeq(text, start + 1, Min2(end, Len(text)))

\* str.strip()
Strip(text) ==
  LET keep == {i \in 1..Len(text) : ~IsSpace(text[i])}
  IN  IF keep = {} THEN <<>> ELSE SubSeq(text, SetMin(keep), SetMax(keep))

\* text.rfind(pat, start, end): the highest 0-based index i with
\* start <= i, i + len(pat) <= end and text[i:i+len(pat)] = pat; -1 if none
RFind(text, pat, start, end) ==
  LET hi  == Min2(end, Len(text)) - Len(pat)
      at  == {i \in start..hi : \A k \in 1..Len(pat) : text[i + k] = pat[k]}
  IN  IF at = {} THEN -1 ELSE SetMax(at)

\* text.replace("\f", " ")
ReplaceFF(text) == [i \in 1..Len(text) |-> IF text[i] = FF THEN SP ELSE text[i]]

\* re.sub(r'\n\s*\n+', '\n\n', text).  A match starts at a newline and,
\* \s* being greedy, runs to the last newline of the whitespace run that
\* follows it; the scan goes on behind the match.  So in every maximal run
\* of whitespace the stretch from its first to its last newline becomes
\* "\n\n": those two newlines stay and what lies between them is dropped.
RunStart(text, j) ==
  SetMax({q \in 0..(j - 1) : q = 0 \/ ~IsSpace(text[q])}) + 1
RunEnd(text, j) ==
  SetMin({q \in (j + 1)..(Len(text) + 1) : q = Len(text) + 1 \/ ~IsSpace(text[q])}) - 1

InsideMatch(text, j) ==
  /\ IsSpace(text[j])
  /\ \E a \in RunStart(text, j)..(j - 1) : text[a] = NL
  /\ \E c \in (j + 1)..RunEnd(text, j) : text[c] = NL

CollapseBlankLines(text) ==
  LET at == [j \in 1..Len(text) |-> <<j, text[j]>>]
      Kept(p) == ~InsideMatch(text, p[1])
      kept == SelectSeq(at, Kept)
  IN  [k \in 1..Len(kept) |-> kept[k][2]]

\* WindowChunker.preprocess_text / EOChunker.preprocess_text (same body)
preprocess_text(text) == Strip(CollapseBlankLines(ReplaceFF(text)))

(***************************************************************************)
(* WindowChunker.chunk_by_window (src/window_chunker.py)                   *)
(***************************************************************************)
WinPuncts == << <<".", SP>>, <<"!", SP>>, <<"?", SP>>,
                <<".", NL>>, <<"!", NL>>, <<"?", NL>> >>

\* the for-loop over the sentence ends: boundary is reassigned at every
\* iteration; the loop breaks at the first hit beyond the window's middle
\* (returning hit + 1) and otherwise leaves the result of the last rfind
RECURSIVE WinPunctLoop(_, _, _, _, _)
WinPunctLoop(text, start, end, size, k) ==
  LET b == RFind(text, WinPuncts[k], start, end)
  IN  IF b # -1 /\ b > start + (size \div 2) THEN b + 1
      ELSE IF k = Len(WinPuncts) THEN b
      ELSE WinPunctLoop(text, start, end, size, k + 1)

\* the boundary of a window that does not reach the end of the text
WinBoundary(text, start, end, size) ==
  LET half == start + (size \div 2)
      para == RFind(text, <<NL, NL>>, start, end)
      b1   == IF para = -1 \/ para < half
              THEN WinPunctLoop(text, start, end, size, 1)
              ELSE para
  IN  IF b1 = -1 \/ b1 < half THEN end ELSE b1

\* mutation: the step is taken as computed
WinNextStartUnguarded(start, size, overlap) == start + size - overlap

\* "Avoid getting stuck in the same position"
WinNextStart(start, size, overlap) ==
  LET next_start == start + size - overlap
  IN  IF next_start <= start THEN start + 1 ELSE next_start

\* the values the loop variable start takes in the first n iterations of
\* a loop entered with start = x (n >= 1); computed by halving so that the
\* evaluation stays shallow on long texts
RECURSIVE WinStarts(_, _, _, _)
WinStarts(size, overlap, x, n) ==
  IF n = 1 THEN <<x>>
  ELSE LET left == WinStarts(size, overlap, x, n \div 2)
       IN  left \o WinStarts(size, overlap,
                             WinNextStart(left[Len(left)], size, overlap),
                             n - (n \div 2))

\* the chunk cut in the iteration entered with start (before strip)
WinChunk(text, size, start) ==
  LET end == start + size
  IN  IF end >= Len(text)
      THEN Slice(text, start, Len(text))
      ELSE Slice(text, start, WinBoundary(text, start, end, size))

\* while start < len(text): start grows by at least 1 per iteration, so the
\* loop makes at most len(text) iterations
WinLoop(text, size, overlap) ==
  LET starts == WinStarts(size, overlap, 0, Len(text))
      cut == [j \in 1..Len(starts) |->
                <<starts[j], Strip(WinChunk(text, size, starts[j]))>>]
      Emitted(c) == c[1] < Len(text) /\ c[2] # <<>>
      out == SelectSeq(cut, Emitted)
  IN  [j \in 1..Len(out) |-> out[j][2]]

WindowChunker_chunk_by_window(text, size, overlap) ==
  IF Len(text) <= size THEN <<text>>
  ELSE WinLoop(text, size, overlap)

(***************************************************************************)
(* EOChunker.chunk_by_window (src/chunk_executive_orders.py)               *)
(***************************************************************************)
\* the end of the window starting at start
EOEnd(text, start, size) ==
  LET end0 == Min2(start + size, Len(text))
  IN  IF ~(end0 < Len(text)) THEN end0
      ELSE LET last_fifth_start == Max2(start, end0 - (size \div 5))
               last_paragraph_break == RFind(text, <<NL, NL>>, last_fifth_start, end0)
               last_sentence_end ==
                 Max2(RFind(text, <<".", SP>>, last_fifth_start, end0),
                      Max2(RFind(text, <<"?", SP>>, last_fifth_start, end0),
                           RFind(text, <<"!", SP>>, last_fifth_start, end0)))
               last_space == RFind(text, <<SP>>, last_fifth_start, end0)
           IN  IF last_paragraph_break # -1 THEN last_paragraph_break
               ELSE IF last_sentence_end # -1 THEN last_sentence_end + 1
               ELSE IF last_space # -1 THEN last_space
               ELSE end0

EONextStart(text, start, end, overlap) ==
  LET n0 == IF end < Len(text) THEN Max2(start + 1, end - overlap)
            ELSE Min2(end, Len(text))
  IN  IF n0 <= start THEN start + 1 ELSE n0

RECURSIVE EOStarts(_, _, _, _, _)
EOStarts(text, size, overlap, x, n) ==
  IF n = 1 THEN <<x>>
  ELSE LET left == EOStarts(text, size, overlap, x, n \div 2)
           last == left[Len(left)]
       IN  left \o EOStarts(text, size, overlap,
                            EONextStart(text, last, EOEnd(text, last, size), overlap),
                            n - (n \div 2))

\* while start < text_length: start grows by at least 1 per iteration
EOLoop(text, size, overlap) ==
  LET starts == EOStarts(text, size, overlap, 0, Len(text))
      cut == [j \in 1..Len(starts) |->
                <<starts[j],
                  Strip(Slice(text, starts[j], EOEnd(text, starts[j], size)))>>]
      Emitted(c) == c[1] < Len(text) /\ c[2] # <<>>
      out == SelectSeq(cut, Emitted)
  IN  [j \in 1..Len(out) |-> out[j][2]]

EOChunker_chunk_by_window(text, size, overlap) ==
  IF Len(text) = 0 THEN <<>> ELSE EOLoop(text, size, overlap)

(***************************************************************************)
(* Bounds and input sets                                                   *)
(***************************************************************************)
Docs    == {"A", "B"}
Workers == {"w1", "w2"}

\* The batch loop of process_and_embed_bill / process_and_embed_order cuts
\* the points into batches of batch_size = 100.  The model runs the same
\* loop with a smaller batch so that ingests of several batches stay small.
batch_size == 2

\* longest raw text handed to an ingest
MaxLen == 5

\* longest raw text handed to one of two concurrent ingests
MaxConcLen == 3

\* ingest calls the concurrent workers make in total
MaxCalls == 2

Rep(c, n) == [k \in 1..n |-> c]

\* (chunk_size, chunk_overlap) pairs a chunker is constructed with
Configs == {<<1, 0>>, <<2, 1>>}

\* raw texts handed to an ingest by its single caller: empty, whitespace
\* only (empty once preprocessed), blank lines to normalise, and runs of
\* letters giving one chunk, two batches and three batches
SeqTexts == { <<>>, <<SP, FF>>, <<"a", NL, FF, NL, "b">>,
              <<"a">>, Rep("b", MaxLen - 2), Rep("a", MaxLen) }

\* raw texts handed to concurrently running ingests
ConcTexts == { <<>>, Rep("b", MaxConcLen - 1), Rep("a", MaxConcLen) }

(***************************************************************************)
(* State                                                                   *)
(***************************************************************************)
VARIABLES
  variant,        \* "bill": WindowChunker, "order": EOChunker, "mem": BillEmbedder,
                  \* "gpt": BillChunker
  chunk_size,     \* self.chunk_size
  chunk_overlap,  \* self.chunk_overlap
  store,          \* the points of the collection
  pc,             \* pc[w]: where worker w is in its ingest call
  call,           \* call[w]: document id, raw text, chunks of the call
  points,         \* points[w]: the PointStructs built by the call
  loop_i,         \* loop_i[w]: the batch loop variable i
  outcome,        \* outcome[w]: what the finished call gave its caller
  hist,           \* hist[w]: record of the worker's calls (history variable)
  ret,            \* the retrieval call whose result its caller is holding
  collection,     \* the Qdrant collection of the chunker: absent, or its vector size
  ctor,           \* the chunker's constructor: its progress and self.vector_size
  chunking        \* the chunk_by_window call in progress: text, start, chunks

vars == <<variant, chunk_size, chunk_overlap, store, pc, call, points, loop_i,
          outcome, hist, ret, collection, ctor, chunking>>

\* the chunker object apart from its ingest calls
chunker_vars == <<collection, ctor, chunking>>

ingest_vars == <<pc, call, points, loop_i, outcome, hist>>

config == <<variant, chunk_size, chunk_overlap>>

(***************************************************************************)
(* Chunk identity and the vector store                                     *)
(***************************************************************************)
\* f"{bill_id}_chunk_{idx}"
chunk_id(d, idx) == <<d, "_chunk_", idx>>

\* str(uuid.uuid5(uuid.NAMESPACE_DNS, chunk_id)): a name-based hash, taken
\* to be injective in the name
uuid5(name) == <<"uuid5", name>>

\* mutation: the id is taken from the chunk index alone
PointIdOfIndex(d, idx) == uuid5(<<"_chunk_", idx>>)

point_id(d, idx) == uuid5(chunk_id(d, idx))

\* PointStruct(id, vector, payload); the vector is the embedding of the
\* payload text and is a function of it
PointStruct(d, idx, chunk_text) ==
  [id |-> point_id(d, idx), doc |-> d, chunk_index |-> idx,
   text |-> chunk_text, chunk_id |-> chunk_id(d, idx)]

\* the for-loop building the points of a call
BuildPoints(d, chunks) ==
  [k \in 1..Len(chunks) |-> PointStruct(d, k - 1, chunks[k])]

\* the chunker of the running variant
chunk_by_window(text) ==
  IF variant = "bill"
  THEN WindowChunker_chunk_by_window(text, chunk_size, chunk_overlap)
  ELSE EOChunker_chunk_by_window(text, chunk_size, chunk_overlap)

\* mutation: the delete removes nothing
DeleteNothing(S, d) == S

\* qdrant.delete with a FilterSelector on the document id field
DeleteByFilter(S, d) == {p \in S : p.doc # d}

\* qdrant.upsert(points=batch, wait=True): insert or overwrite by id
Upsert(S, batch) ==
  LET ids == {batch[k].id : k \in 1..Len(batch)}
  IN  {p \in S : p.id \notin ids} \cup {batch[k] : k \in 1..Len(batch)}

\* mutation: the slice is one point too long
BatchOneMore(pts, lo) == Slice(pts, lo, lo + batch_size + 1)

\* points[i:i+batch_size]
Batch(pts, lo) == Slice(pts, lo, lo + batch_size)

RECURSIVE SumLenFrom(_, _, _)
SumLenFrom(chunks, lo, hi) ==
  IF lo > hi THEN 0
  ELSE IF lo = hi THEN Len(chunks[lo])
  ELSE LET mid == (lo + hi) \div 2
       IN  SumLenFrom(chunks, lo, mid) + SumLenFrom(chunks, mid + 1, hi)

\* sum(len(chunk) for chunk in chunks)
SumLen(chunks) == SumLenFrom(chunks, 1, Len(chunks))

\* return len(chunks), sum(len(chunk) for chunk in chunks)
ReturnValue(chunks) == <<Len(chunks), SumLen(chunks)>>

DocPoints(S, d) == {p \in S : p.doc = d}

(***************************************************************************)
(* Ingest: process_and_embed_bill / process_and_embed_order                *)
(* One action per step of the call that reads or writes the store; the     *)
(* code between two store requests touches only the call's own locals.     *)
(***************************************************************************)
\* the constructor has returned: self.vector_size and what
\* _ensure_collection_exists printed
Constructed(vector_size, said) ==
  [phase |-> "constructed", vector_size |-> vector_size, said |-> said]

\* no chunk_by_window call is being followed
NoChunking == [phase |-> "idle"]

NoRet     == [op |-> "none"]
NoCall    == [doc |-> "none", text |-> <<>>, chunks |-> <<>>]
NoOutcome == [kind |-> "none", value |-> <<0, 0>>]
\* hist[w] records, for the call worker w is in (or has just finished):
\*   pre    the store when the call was entered (kept when asked for)
\*   prev   whether the worker's previous call had the same (id, text), and
\*          how that call ended
\*   calls  the number of calls the worker has made (when counted)
\*   sent   the number of store requests the call has issued
\*   err    the request that failed in the call, if any
\*   log    the upsert requests of the call: chunk indices sent, acknowledged
\*   clash  another ingest of the same document ran during the call
\*   overlapped  a store request of the call was issued while another
\*          ingest was between its delete and its last batch
NoPrev    == [same |-> FALSE, err |-> "none"]
NoHist    == [pre |-> {}, prev |-> NoPrev, calls |-> 0, sent |-> 0, err |-> "none",
              log |-> <<>>, clash |-> FALSE, overlapped |-> FALSE]

Active(w)   == pc[w] \in {"embed", "delete", "upsert"}
InStore(w)  == pc[w] \in {"delete", "upsert"}
Others(w)   == Workers \ {w}

TypeOK ==
  /\ variant \in {"bill", "order", "mem", "gpt"}
  /\ chunk_size \in Nat /\ chunk_overlap \in Nat
  /\ pc \in [Workers -> {"idle", "embed", "delete", "upsert", "done"}]
  /\ \A w \in Workers : loop_i[w] \in Nat /\ outcome[w].kind \in {"none", "returned", "raised"}

\* the collection exists and is empty; no call has been made
InitWith(variants) ==
  /\ variant \in variants
  /\ \E c \in Configs : chunk_size = c[1] /\ chunk_overlap = c[2]
  /\ store = {}
  /\ pc = [w \in Workers |-> "idle"]
  /\ call = [w \in Workers |-> NoCall]
  /\ points = [w \in Workers |-> <<>>]
  /\ loop_i = [w \in Workers |-> 0]
  /\ outcome = [w \in Workers |-> NoOutcome]
  /\ hist = [w \in Workers |-> NoHist]
  /\ ret = NoRet
  /\ collection = [exists |-> TRUE, size |-> 1]
  /\ ctor = Constructed(1, "exists")
  /\ chunking = NoChunking

Init == InitWith({"bill", "order"})

\* entry: cleaned_text = preprocess_text(text); chunks = chunk_by_window(..)
\* (track: the history variable keeps the store snapshot and the relation to
\* the previous call; otherwise it counts the worker's calls)
Begin(w, d, t, track) ==
  /\ pc[w] \in {"idle", "done"}
  /\ pc' = [pc EXCEPT ![w] = "embed"]
  /\ call' = [call EXCEPT ![w] =
                [doc |-> d, text |-> t,
                 chunks |-> chunk_by_window(preprocess_text(t))]]
  /\ points' = [points EXCEPT ![w] = <<>>]
  /\ loop_i' = [loop_i EXCEPT ![w] = 0]
  /\ outcome' = [outcome EXCEPT ![w] = NoOutcome]
  /\ hist' = [v \in Workers |->
       IF v = w
       THEN [pre |-> IF track THEN store ELSE {},
             prev |-> IF track /\ call[w].doc = d /\ call[w].text = t
                      THEN [same |-> TRUE, err |-> hist[w].err]
                      ELSE NoPrev,
             calls |-> IF track THEN 0 ELSE hist[w].calls + 1,
             sent |-> 0, err |-> "none", log |-> <<>>,
             clash |-> \E v2 \in Others(w) : Active(v2) /\ call[v2].doc = d,
             overlapped |-> FALSE]
       ELSE IF Active(v) /\ call[v].doc = d
            THEN [hist[v] EXCEPT !.clash = TRUE]
            ELSE hist[v]]
  /\ UNCHANGED <<config, chunker_vars, store, ret>>

\* the for-loop over the chunks: every chunk is embedded and its point built
\* before the try block is entered.  With no point the try block is skipped
\* and the call returns.
EmbedAll(w) ==
  /\ pc[w] = "embed"
  /\ points' = [points EXCEPT ![w] = BuildPoints(call[w].doc, call[w].chunks)]
  /\ IF call[w].chunks # <<>>
     THEN /\ pc' = [pc EXCEPT ![w] = "delete"]
          /\ UNCHANGED outcome
     ELSE /\ pc' = [pc EXCEPT ![w] = "done"]
          /\ outcome' = [outcome EXCEPT ![w] =
                           [kind |-> "returned", value |-> ReturnValue(call[w].chunks)]]
  /\ UNCHANGED <<config, chunker_vars, store, call, loop_i, hist, ret>>

\* mutation: the chunks are embedded after the delete, so that an embedder
\* failure leaves the call with the document's points already removed
EmbedFailAfterDelete(w) ==
  /\ pc[w] = "embed"
  /\ call[w].chunks # <<>>
  /\ store' = {p \in store : p.doc # call[w].doc}
  /\ pc' = [pc EXCEPT ![w] = "done"]
  /\ outcome' = [outcome EXCEPT ![w] = [kind |-> "raised", value |-> <<0, 0>>]]
  /\ hist' = [hist EXCEPT ![w].err = "embed", ![w].sent = @ + 1]
  /\ UNCHANGED <<config, chunker_vars, call, points, loop_i, ret>>

\* self.embedder.encode raises on some chunk: the loop is outside the try
\* block, the exception leaves the call
EmbedFail(w) ==
  /\ pc[w] = "embed"
  /\ call[w].chunks # <<>>
  /\ pc' = [pc EXCEPT ![w] = "done"]
  /\ outcome' = [outcome EXCEPT ![w] = [kind |-> "raised", value |-> <<0, 0>>]]
  /\ hist' = [hist EXCEPT ![w].err = "embed"]
  /\ UNCHANGED <<config, chunker_vars, store, call, points, loop_i, ret>>

Overlap(w) == hist[w].overlapped \/ \E v \in Others(w) : InStore(v)

\* self.qdrant.delete(... FilterSelector(document id = d) ...)
Delete(w) ==
  /\ pc[w] = "delete"
  /\ store' = DeleteByFilter(store, call[w].doc)
  /\ pc' = [pc EXCEPT ![w] = "upsert"]
  /\ loop_i' = [loop_i EXCEPT ![w] = 0]
  /\ hist' = [hist EXCEPT ![w].sent = @ + 1, ![w].overlapped = Overlap(w)]
  /\ UNCHANGED <<config, chunker_vars, call, points, outcome, ret>>

\* except Exception: the error is printed, the call goes on to its return
Swallow(w, what) ==
  /\ pc' = [pc EXCEPT ![w] = "done"]
  /\ outcome' = [outcome EXCEPT ![w] =
                   [kind |-> "returned", value |-> ReturnValue(call[w].chunks)]]
  /\ UNCHANGED <<config, chunker_vars, store, call, points, loop_i, ret>>

\* mutation: the failure of the delete is swallowed on its own and the
\* call goes on to its batch loop
DeleteFailThenUpsert(w) ==
  /\ pc[w] = "delete"
  /\ pc' = [pc EXCEPT ![w] = "upsert"]
  /\ loop_i' = [loop_i EXCEPT ![w] = 0]
  /\ hist' = [hist EXCEPT ![w].sent = @ + 1, ![w].err = "delete",
                          ![w].overlapped = Overlap(w)]
  /\ UNCHANGED <<config, chunker_vars, store, call, points, outcome, ret>>

\* the delete request fails
DeleteFail(w) ==
  /\ pc[w] = "delete"
  /\ Swallow(w, "delete")
  /\ hist' = [hist EXCEPT ![w].sent = @ + 1, ![w].err = "delete",
                          ![w].overlapped = Overlap(w)]

LogEntry(batch, ok) ==
  [idx |-> [k \in 1..Len(batch) |-> batch[k].chunk_index], ok |-> ok]

\* one iteration of the batch loop: upsert(points[i:i+batch_size], wait=True)
\* is acknowledged; after the last batch the call returns
UpsertBatch(w) ==
  /\ pc[w] = "upsert"
  /\ loop_i[w] < Len(points[w])
  /\ LET batch == Batch(points[w], loop_i[w])
     IN  /\ store' = Upsert(store, batch)
         /\ hist' = [hist EXCEPT ![w].sent = @ + 1,
                                 ![w].log = Append(@, LogEntry(batch, TRUE)),
                                 ![w].overlapped = Overlap(w)]
  /\ loop_i' = [loop_i EXCEPT ![w] = @ + batch_size]
  /\ IF loop_i[w] + batch_size < Len(points[w])
     THEN UNCHANGED <<pc, outcome>>
     ELSE /\ pc' = [pc EXCEPT ![w] = "done"]
          /\ outcome' = [outcome EXCEPT ![w] =
                           [kind |-> "returned", value |-> ReturnValue(call[w].chunks)]]
  /\ UNCHANGED <<config, chunker_vars, call, points, ret>>

\* the upsert request of a batch fails: nothing of the batch is stored
UpsertFail(w) ==
  /\ pc[w] = "upsert"
  /\ loop_i[w] < Len(points[w])
  /\ Swallow(w, "upsert")
  /\ hist' = [hist EXCEPT ![w].sent = @ + 1, ![w].err = "upsert",
                          ![w].log = Append(@, LogEntry(Batch(points[w], loop_i[w]), FALSE)),
                          ![w].overlapped = Overlap(w)]

Step(w) ==
  \/ EmbedAll(w)
  \/ EmbedFail(w)
  \/ Delete(w)
  \/ DeleteFail(w)
  \/ UpsertBatch(w)
  \/ UpsertFail(w)

\* ingests running concurrently against one collection
TotalCalls == hist["w1"].calls + hist["w2"].calls

Start(w, d, t) == TotalCalls < MaxCalls /\ Begin(w, d, t, FALSE)

Next ==
  \/ \E w \in Workers, d \in Docs, t \in ConcTexts : Start(w, d, t)
  \/ \E w \in Workers : Step(w)

Spec == Init /\ [][Next]_vars

\* one caller ingesting documents one after the other (process_all_bills,
\* process_all_orders)
StartSeq(d, t) == Begin("w1", d, t, TRUE)

NextSeq ==
  \/ \E d \in Docs, t \in SeqTexts : StartSeq(d, t)
  \/ Step("w1")

SpecSeq == Init /\ [][NextSeq]_vars

(***************************************************************************)
(* Properties of the ingest                                                *)
(***************************************************************************)
\* the points derived from the chunks of a text
PointSet(d, t) ==
  LET chunks == chunk_by_window(preprocess_text(t))
  IN  {PointStruct(d, k - 1, chunks[k]) : k \in 1..Len(chunks)}

NewPoints(w) == PointSet(call[w].doc, call[w].text)

Returned(w)   == outcome[w].kind = "returned"
ReturnedOk(w) == Returned(w) /\ hist[w].err = "none"

\* C1: after an ingest of a document that completes without a store error,
\* the stored points of that document are exactly the points derived from
\* the chunks of the new text (also when the new text gives fewer chunks
\* than before, or none).
C1_ReplacesAll ==
  \A w \in Workers :
    ReturnedOk(w) => DocPoints(store, call[w].doc) = NewPoints(w)

\* C2: ingesting the same (document_id, raw_text) a second time leaves the
\* store as the first ingest left it; and when the first run failed after
\* its delete, in one of its upsert batches, a second run that succeeds
\* leaves the store as one successful ingest would: the document's earlier
\* points replaced by the points of the text, all other points untouched.
IngestedOnce(S, d, t) == (S \ DocPoints(S, d)) \cup PointSet(d, t)

C2_Idempotent ==
  \A w \in Workers :
    (ReturnedOk(w) /\ hist[w].prev.same) =>
      /\ hist[w].prev.err = "none" => store = hist[w].pre
      /\ hist[w].prev.err = "upsert" =>
           store = IngestedOnce(hist[w].pre, call[w].doc, call[w].text)

\* a second run has repaired a first run that failed after at least one
\* acknowledged batch, with more than one batch to send
C2_Witness ==
  /\ ReturnedOk("w1") /\ hist["w1"].prev.same /\ hist["w1"].prev.err = "upsert"
  /\ Len(hist["w1"].log) >= 2
  /\ DocPoints(hist["w1"].pre, call["w1"].doc) # {}
  /\ DocPoints(hist["w1"].pre, call["w1"].doc) # NewPoints("w1")
  /\ hist["w1"].pre \ DocPoints(hist["w1"].pre, call["w1"].doc) # {}

\* the plain case of C2: the same text ingested twice, both runs succeeding
C2_TwiceReached ==
  /\ ReturnedOk("w1") /\ hist["w1"].prev.same /\ hist["w1"].prev.err = "none"
  /\ Len(hist["w1"].log) >= 2

\* C3: when the embedder fails during an ingest, the call has issued no
\* delete and no upsert, and the store is as it was when the call began.
C3_EmbedFailureWritesNothing ==
  \A w \in Workers :
    outcome[w].kind = "raised" =>
      /\ hist[w].err = "embed"
      /\ hist[w].sent = 0
      /\ store = hist[w].pre

\* the embedder has failed in a re-ingest of a document that has points
C3_Witness ==
  /\ outcome["w1"].kind = "raised"
  /\ DocPoints(store, call["w1"].doc) # {}
  /\ Len(call["w1"].chunks) >= 2

\* C4: a store failure in the delete or in an upsert batch is surfaced to
\* the caller: the call does not return the (chunk_count, character_count)
\* a fully stored document gives.
C4_StoreFailureSurfaced ==
  \A w \in Workers :
    hist[w].err \in {"delete", "upsert"} =>
      ~(Returned(w) /\ outcome[w].value = ReturnValue(call[w].chunks))

\* C5: the upsert step sends the new points as consecutive batches of at
\* most batch_size points in chunk-index order, sends a batch only when all
\* earlier ones were acknowledged, and sends none after a failed one; the
\* store then holds, for the document, exactly the points of the
\* acknowledged batches.
Acked(w) == Len(SelectSeq(hist[w].log, LAMBDA e : e.ok))

BatchesInOrder(w) ==
  LET log == hist[w].log
  IN  \A k \in 1..Len(log) :
        /\ Len(log[k].idx) \in 1..batch_size
        /\ \A j \in 1..Len(log[k].idx) :
             log[k].idx[j] = (k - 1) * batch_size + (j - 1)
        /\ k < Len(log) => log[k].ok /\ Len(log[k].idx) = batch_size
        /\ log[k].idx[Len(log[k].idx)] < Len(points[w])

C5_WholeBatches ==
  \A w \in Workers :
    /\ BatchesInOrder(w)
    /\ (pc[w] = "upsert" \/ (pc[w] = "done" /\ hist[w].err \in {"none", "upsert"}
                                /\ hist[w].sent > 0)) =>
         DocPoints(store, call[w].doc) =
           {points[w][k] : k \in 1..Min2(Acked(w) * batch_size, Len(points[w]))}
    /\ (pc[w] = "done" /\ hist[w].err = "none" /\ hist[w].sent > 0) =>
         Acked(w) * batch_size >= Len(points[w])

\* the third batch of a re-ingest has failed after two acknowledged ones
C5_Witness ==
  /\ pc["w1"] = "done" /\ hist["w1"].err = "upsert"
  /\ Len(hist["w1"].log) = 3
  /\ DocPoints(hist["w1"].pre, call["w1"].doc) # {}
  /\ Cardinality(DocPoints(store, call["w1"].doc)) = 2 * batch_size

\* C6: when two ingests of different documents run concurrently against one
\* collection, no step of an ingest changes a point of another document,
\* and an ingest that returns without error (no other ingest of its own
\* document having run meanwhile) finds its complete chunk set stored.
Acts(w) == pc'[w] # pc[w] \/ loop_i'[w] # loop_i[w]

Finishes(w) == pc[w] # "done" /\ pc'[w] = "done" /\ outcome'[w].kind = "returned"

C6_Step ==
  \A w \in Workers :
    /\ Acts(w) =>
         \A d \in Docs \ {call'[w].doc} : DocPoints(store', d) = DocPoints(store, d)
    /\ (Finishes(w) /\ hist'[w].err = "none" /\ ~hist'[w].clash) =>
         PointSet(call'[w].doc, call'[w].text) \subseteq store'

C6_DocumentsIndependent == [][C6_Step]_vars

\* two ingests of several batches each, of different documents, have run
\* interleaved and both have returned without error
C6_Witness ==
  /\ \A w \in Workers :
       /\ ReturnedOk(w) /\ hist[w].overlapped /\ Len(hist[w].log) >= 2
       /\ DocPoints(store, call[w].doc) = NewPoints(w)
  /\ call["w1"].doc # call["w2"].doc

(***************************************************************************)
(* Retrieval: BillEmbedder (src/embedding.py) on its in-memory collection, *)
(* ExecutiveOrderQuerier.query_order on the executive-order collection     *)
(***************************************************************************)
\* most chunks handed to embed_and_index_chunks in one call
MaxChunks == 2

\* largest top_k asked for
MaxTopK == 3

\* similarity scores are drawn from 1..MaxScore
MaxScore == 2

Scores == 1..MaxScore

Digits == {"0", "1", "2", "3", "4", "5", "6", "7", "8", "9"}
Letters == {"a", "b", "c", "e", "i", "n", "o", "s", "t", "x", "y",
            "C", "E", "I", "N", "O", "S", "T", "_"}

\* the regex classes \w, \d and \s
IsWordChar(c) == c \in Letters \cup Digits
IsDigit(c)    == c \in Digits

\* \b before 0-based position k of q
WordBoundary(q, k) ==
  LET before == k >= 1 /\ IsWordChar(q[k])
      after  == k < Len(q) /\ IsWordChar(q[k + 1])
  IN  before # after

\* the digits group of r'\b[Ss]ection\s+(\d+)\b' matched at 0-based
\* position k of q, <<>> when the pattern does not match there.  \s+ and
\* \d+ are greedy; giving a character back never lets the rest match.
MatchAt(q, k) ==
  LET word == <<"e", "c", "t", "i", "o", "n">>
      ws0  == k + 7
      nonws == {j \in ws0..Len(q) : j = Len(q) \/ ~IsSpace(q[j + 1])}
      d0   == SetMin(nonws)
      nondig == {j \in d0..Len(q) : j = Len(q) \/ ~IsDigit(q[j + 1])}
      d1   == SetMin(nondig)
  IN  IF /\ k + 7 <= Len(q)
         /\ WordBoundary(q, k)
         /\ q[k + 1] \in {"S", "s"}
         /\ \A j \in 1..6 : q[k + 1 + j] = word[j]
         /\ d0 > ws0
         /\ d1 > d0
         /\ WordBoundary(q, d1)
      THEN Slice(q, d0, d1)
      ELSE <<>>

\* sec_match = re.search(...); sec_num = sec_match.group(1): the leftmost
\* match; <<>> stands for no match
sec_num(q) ==
  LET at == {k \in 0..Len(q) : MatchAt(q, k) # <<>>}
  IN  IF at = {} THEN <<>> ELSE MatchAt(q, SetMin(at))

\* f"Section {sec_num}"
SectionQuery(n) == <<"S", "e", "c", "t", "i", "o", "n", SP>> \o n

\* queries put to the retrieval
Queries ==
  { <<"x">>,
    <<"S", "e", "c", "t", "i", "o", "n", SP, "3">>,
    <<"x", SP, "s", "e", "c", "t", "i", "o", "n", SP, SP, "3", "?">>,
    <<"x", "S", "e", "c", "t", "i", "o", "n", SP, "3">>,
    <<"S", "E", "C", "T", "I", "O", "N", SP, "3">> }

\* texts of the chunk files loaded by load_chunks_from_directory
HeaderChunk == <<"S", "E", "C", ".", SP, "3", ".", SP, "x">>
ChunkTexts  == { HeaderChunk, <<"x">>, <<"y">> }

\* the text contains the header "SEC. n."
HasHeader(text, n) ==
  LET header == <<"S", "E", "C", ".", SP>> \o n \o <<".">>
  IN  \E k \in 0..(Len(text) - Len(header)) :
        \A j \in 1..Len(header) : text[k + j] = header[j]

\* the chunk dicts of load_chunks_from_directory: the id is
\* f"{bill_id}::{chunk_file}", chunk files being numbered in list order
ChunkDict(d, text, k) == [id |-> <<d, "::", k>>, bill_id |-> d, text |-> text]

\* a directory of three chunk files of one bill: the texts all different,
\* the header in the middle / one text in two files
LongerLists ==
  { <<ChunkDict("A", <<"x">>, 1), ChunkDict("A", HeaderChunk, 2), ChunkDict("A", <<"y">>, 3)>>,
    <<ChunkDict("A", <<"x">>, 1), ChunkDict("A", <<"x">>, 2), ChunkDict("A", <<"y">>, 3)>> }

\* the lists handed to embed_and_index_chunks: every list of up to
\* MaxChunks chunks, and the longer ones above
ChunkLists ==
  LongerLists \cup
  UNION { { [k \in 1..n |-> ChunkDict(ds[k], ts[k], k)] :
            ds \in [1..n -> Docs], ts \in [1..n -> ChunkTexts] } : n \in 0..MaxChunks }

\* PointStruct(id=idx, vector, payload={original_id, bill_id, text})
MemPoint(idx, chunk) ==
  [id |-> idx, doc |-> chunk.bill_id, text |-> chunk.text, original_id |-> chunk.id]

\* for i in range(0, len(points), batch_size): upsert(points[i:i+batch_size])
RECURSIVE UpsertBatches(_, _, _)
UpsertBatches(S, pts, lo) ==
  IF lo >= Len(pts) THEN S
  ELSE UpsertBatches(Upsert(S, Batch(pts, lo)), pts, lo + batch_size)

\* BillEmbedder.embed_and_index_chunks
embed_and_index_chunks(bill_chunks) ==
  /\ variant = "mem"
  /\ store' = UpsertBatches(store,
                [k \in 1..Len(bill_chunks) |-> MemPoint(k - 1, bill_chunks[k])], 0)
  /\ UNCHANGED <<config, chunker_vars, ingest_vars, ret>>

\* mutation: the search ignores the query filter
MatchingAny(S, d) == S

\* the points a search restricted by query_filter (document id = d) ranges over
Matching(S, d) == {p \in S : p.doc = d}

TextsOf(P) == {p.text : p \in P}

\* the scored point a search returns
Hit(p, sc) == [id |-> p.id, doc |-> p.doc, text |-> p.text, score |-> sc[p.text]]

RangeOf(f) == {f[k] : k \in DOMAIN f}

\* mutation: the hits come lowest score first
SearchRankingsAscending(M, sc, n) ==
  { h \in [1..n -> M] :
      /\ \A a, b \in 1..n : a # b => h[a] # h[b]
      /\ \A a, b \in 1..n : a < b => sc[h[a].text] <= sc[h[b].text] }

\* the orders in which a search may return n of the points M: distinct
\* points, nearest first, no point left out that is nearer than one returned
SearchRankings(M, sc, n) ==
  { h \in [1..n -> M] :
      /\ \A a, b \in 1..n : a # b => h[a] # h[b]
      /\ \A a, b \in 1..n : a < b => sc[h[a].text] >= sc[h[b].text]
      /\ \A p \in M \ RangeOf(h) : \A a \in 1..n : sc[h[a].text] >= sc[p.text] }

\* qdrant.search(query_vector, query_filter, limit): the limit nearest of
\* the matching points, nearest first, ties in any order.  sc gives the
\* similarity of the query vector to the embedding of each stored text.
Search(S, d, sc, limit) ==
  LET M == Matching(S, d)
      n == Min2(limit, Cardinality(M))
  IN  { [k \in 1..n |-> Hit(h[k], sc)] : h \in SearchRankings(M, sc, n) }

Entry(hit) == [text |-> hit.text, score |-> hit.score]

\* mutation: every hit is appended
AddHitsAll(results, seen_texts, hits) ==
  results \o [k \in 1..Len(hits) |-> Entry(hits[k])]

\* for hit in hits: if text not in seen_texts: append, add to seen_texts
RECURSIVE AddHits(_, _, _)
AddHits(results, seen_texts, hits) ==
  IF hits = <<>> THEN results
  ELSE IF Head(hits).text \notin seen_texts
       THEN AddHits(Append(results, Entry(Head(hits))),
                    seen_texts \cup {Head(hits).text}, Tail(hits))
       ELSE AddHits(results, seen_texts, Tail(hits))

\* mutation: the primary hits are merged first, the section hit after them
CombineSectionLast(section_hits, hits, top_k) ==
  LET merged == AddHits(<<>>, {}, hits)
      seen   == {merged[k].text : k \in 1..Len(merged)}
  IN  Slice(AddHits(merged, seen, SubSeq(section_hits, 1, Min2(1, Len(section_hits)))),
            0, top_k)

\* "Combine results, avoiding duplicates" ... return results[:top_k]
Combine(section_hits, hits, top_k) ==
  LET explicit == IF section_hits # <<>> THEN <<Entry(section_hits[1])>> ELSE <<>>
      seen0    == IF section_hits # <<>> THEN {section_hits[1].text} ELSE {}
  IN  Slice(AddHits(explicit, seen0, hits), 0, top_k)

ScoreFns(d) == [TextsOf(Matching(store, d)) -> Scores]

\* BillEmbedder.retrieve_chunks(bill_id, query, top_k).  scP scores the
\* stored texts against the query, scS against "Section n"; they are one
\* scoring when the query is that very string.
retrieve_chunks(d, q, top_k) ==
  /\ variant = "mem"
  /\ \E scP \in ScoreFns(d) :
       \E scS \in (IF sec_num(q) # <<>> /\ q # SectionQuery(sec_num(q))
                   THEN ScoreFns(d) ELSE {scP}) :
         \E sh \in (IF sec_num(q) # <<>> THEN Search(store, d, scS, 1) ELSE {<<>>}),
            h \in Search(store, d, scP, top_k) :
           ret' = [op |-> "retrieve_chunks", doc |-> d, top_k |-> top_k,
                   sec |-> sec_num(q), section_hits |-> sh, hits |-> h,
                   results |-> Combine(sh, h, top_k), failed |-> FALSE]
  /\ UNCHANGED <<config, chunker_vars, store, ingest_vars>>

\* ExecutiveOrderQuerier.query_order(order_id, query, top_k), no exception
query_order(d, q, top_k) ==
  /\ variant = "order"
  /\ \E sc \in ScoreFns(d) :
       \E h \in Search(store, d, sc, top_k) :
         ret' = [op |-> "query_order", doc |-> d, top_k |-> top_k,
                 sec |-> <<>>, section_hits |-> <<>>, hits |-> h,
                 results |-> [k \in 1..Len(h) |-> Entry(h[k])], failed |-> FALSE]
  /\ UNCHANGED <<config, chunker_vars, store, ingest_vars>>

\* query_order: the embedder or the search raises; except: return []
query_order_fail(d, q, top_k) ==
  /\ variant = "order"
  /\ ret' = [op |-> "query_order", doc |-> d, top_k |-> top_k,
             sec |-> <<>>, section_hits |-> <<>>, hits |-> <<>>,
             results |-> <<>>, failed |-> TRUE]
  /\ UNCHANGED <<config, chunker_vars, store, ingest_vars>>

\* the caller has consumed the result
TakeResult ==
  /\ ret # NoRet
  /\ ret' = NoRet
  /\ UNCHANGED <<config, chunker_vars, store, ingest_vars>>

QueryDocs == Docs \cup {"Z"}

\* raw texts ingested before executive orders are queried
QueryTexts == { <<>>, <<"x">>, Rep("y", MaxConcLen) }

\* one client: it indexes or ingests, then queries; a call is made when the
\* result of the call before has been taken
NextRetrieve ==
  \/ /\ ret = NoRet
     /\ \/ \E l \in ChunkLists : embed_and_index_chunks(l)
        \/ \E d \in Docs, t \in QueryTexts : variant = "order" /\ Start("w1", d, t)
        \/ variant = "order" /\ Step("w1")
        \/ \E d \in QueryDocs, q \in Queries, k \in 0..MaxTopK :
             \/ retrieve_chunks(d, q, k)
             \/ query_order(d, q, k)
             \/ query_order_fail(d, q, k)
  \/ TakeResult

\* BillEmbedder takes no chunking configuration
InitRetrieve ==
  /\ InitWith({"mem", "order"})
  /\ variant = "mem" => chunk_size = 1 /\ chunk_overlap = 0

SpecRetrieve == InitRetrieve /\ [][NextRetrieve]_vars

(***************************************************************************)
(* Retrieval properties                                                    *)
(***************************************************************************)
Retrieved == ret.op \in {"retrieve_chunks", "query_order"}
Hybrid    == ret.op = "retrieve_chunks"

\* C7: a per-document retrieval returns only texts of stored points of the
\* requested document, in the section search as in the primary search, and
\* for a document without stored points it returns the empty sequence
\* without failing.
C7_OnlyRequestedDocument ==
  Retrieved =>
    /\ \A k \in 1..Len(ret.hits) : ret.hits[k].doc = ret.doc
    /\ \A k \in 1..Len(ret.section_hits) : ret.section_hits[k].doc = ret.doc
    /\ \A k \in 1..Len(ret.results) :
         \E p \in store : p.doc = ret.doc /\ p.text = ret.results[k].text
    /\ (\A p \in store : p.doc # ret.doc) => ret.results = <<>>
    /\ (\A p \in store : p.doc # ret.doc) /\ Hybrid => ~ret.failed

\* a section query for a document returned that document's texts while
\* another document held a text of its own
C7_Witness ==
  /\ Retrieved /\ ~ret.failed
  /\ ret.results # <<>>
  /\ ret.op = "retrieve_chunks" => ret.section_hits # <<>>
  /\ \E p \in store : p.doc # ret.doc /\ p.text \notin TextsOf(Matching(store, ret.doc))

\* a retrieval for a document id without points, other documents stored
C7_UnknownReached ==
  /\ Retrieved /\ ~ret.failed /\ ret.top_k >= 1
  /\ store # {} /\ Matching(store, ret.doc) = {}

\* C8: for top_k >= 1 a query naming Section n returns, when a chunk with
\* the header "SEC. n." is stored for the document, that chunk.
C8_SectionChunkIncluded ==
  ( /\ Hybrid /\ ret.top_k >= 1 /\ ret.sec # <<>>
    /\ \E p \in Matching(store, ret.doc) : HasHeader(p.text, ret.sec) )
  => \E k \in 1..Len(ret.results) : HasHeader(ret.results[k].text, ret.sec)

\* C9: the list returned by retrieve_chunks holds no text twice.
C9_NoDuplicateTexts ==
  Hybrid =>
    \A a, b \in 1..Len(ret.results) :
      a # b => ret.results[a].text # ret.results[b].text

\* the section hit's text came back from the primary search too, two
\* primary hits had one text, and the list returned holds each text once
C9_Witness ==
  /\ Hybrid
  /\ ret.section_hits # <<>>
  /\ \E k \in 1..Len(ret.hits) : ret.hits[k].text = ret.section_hits[1].text
  /\ \E a, b \in 1..Len(ret.hits) : a # b /\ ret.hits[a].text = ret.hits[b].text
  /\ Len(ret.results) >= 2

\* C10 as stated: the scores of the list returned by retrieve_chunks are
\* non-increasing, an explicit-section hit in front included.
C10_ScoresNonIncreasing ==
  Hybrid =>
    \A a, b \in 1..Len(ret.results) :
      a < b => ret.results[a].score >= ret.results[b].score

\* C10: an explicit-section hit comes first with the score of its own
\* search; the entries after it, all entries when there is none, are in
\* non-increasing score order.
C10_SectionFirstThenRanked ==
  Hybrid =>
    LET r     == ret.results
        first == IF ret.section_hits # <<>> THEN 2 ELSE 1
    IN  /\ ret.section_hits # <<>> /\ r # <<>> => r[1] = Entry(ret.section_hits[1])
        /\ \A a, b \in first..Len(r) : a < b => r[a].score >= r[b].score

\* a section hit in front of a primary hit of higher score, the primary
\* hits after it in falling score order
C10_Witness ==
  /\ Hybrid
  /\ ret.section_hits # <<>>
  /\ Len(ret.results) = 3
  /\ ret.results[1].score < ret.results[2].score
  /\ ret.results[2].score > ret.results[3].score

(***************************************************************************)
(* The section detection of retrieve_chunks on queries in every letter     *)
(* case                                                                    *)
(***************************************************************************)
\* "section" with the letters the function upper marks in upper case
CaseOf(upper) ==
  LET lo == <<"s", "e", "c", "t", "i", "o", "n">>
      up == <<"S", "E", "C", "T", "I", "O", "N">>
  IN  [k \in 1..7 |-> IF upper[k] THEN up[k] ELSE lo[k]]

\* queries that name section 12, alone or inside a question
CaseQueries ==
  { pre \o CaseOf(c) \o <<SP, "1", "2">> \o post :
      pre \in {<<>>, <<"x", SP>>}, post \in {<<>>, <<"?">>},
      c \in [1..7 -> BOOLEAN] }

\* BillEmbedder.retrieve_chunks(bill_id, query, top_k), the caller keeping
\* the query and the strings handed to embedder.encode, in call order
retrieve_chunks_encoding(d, q, top_k) ==
  /\ variant = "mem"
  /\ \E scP \in ScoreFns(d) :
       \E scS \in (IF sec_num(q) # <<>> /\ q # SectionQuery(sec_num(q))
                   THEN ScoreFns(d) ELSE {scP}) :
         \E sh \in (IF sec_num(q) # <<>> THEN Search(store, d, scS, 1) ELSE {<<>>}),
            h \in Search(store, d, scP, top_k) :
           ret' = [op |-> "retrieve_chunks", doc |-> d, top_k |-> top_k,
                   sec |-> sec_num(q), section_hits |-> sh, hits |-> h,
                   results |-> Combine(sh, h, top_k), failed |-> FALSE,
                   query |-> q,
                   encoded |-> IF sec_num(q) # <<>>
                               THEN <<SectionQuery(sec_num(q)), q>> ELSE <<q>>]
  /\ UNCHANGED <<config, chunker_vars, store, ingest_vars>>

\* one client of a BillEmbedder that has indexed one bill directory
NextDetect ==
  \/ /\ ret = NoRet
     /\ \/ \E l \in LongerLists : embed_and_index_chunks(l)
        \/ \E q \in CaseQueries : retrieve_chunks_encoding("A", q, 1)
  \/ TakeResult

InitDetect == InitWith({"mem"}) /\ chunk_size = 1 /\ chunk_overlap = 0

SpecDetect == InitDetect /\ [][NextDetect]_vars

\* str.lower() on the letters of the queries
ToLower(q) ==
  LET lower == [c \in {"S", "E", "C", "T", "I", "O", "N"} |->
                  CASE c = "S" -> "s" [] c = "E" -> "e" [] c = "C" -> "c"
                    [] c = "T" -> "t" [] c = "I" -> "i" [] c = "O" -> "o"
                    [] c = "N" -> "n"]
  IN  [k \in 1..Len(q) |-> IF q[k] \in DOMAIN lower THEN lower[q[k]] ELSE q[k]]

\* the integer of the first reference to a section in q, the word
\* "section" taken in any letter case; <<>> when there is none
SectionRefAnyCase(q) == sec_num(ToLower(q))

\* C11: for every query that holds the word "section" in any letter case
\* followed by an integer, the section search for "Section <integer>" is
\* issued (its string is the first one embedded).
C11_AnyCaseDetected ==
  (Hybrid /\ SectionRefAnyCase(ret.query) # <<>>) =>
    ret.encoded[1] = SectionQuery(SectionRefAnyCase(ret.query))

\* the section search was issued for a query in the case the pattern knows
C11_DetectedReached ==
  /\ Hybrid
  /\ ret.encoded = <<SectionQuery(<<"1", "2">>), ret.query>>
  /\ ret.section_hits # <<>>

(***************************************************************************)
(* Failures during retrieval                                               *)
(***************************************************************************)
\* what query_order hands its caller: the returned list, nothing else
CallerSees(r) == r.results

\* C12: when the embedder or the store fails during a retrieval call, the
\* caller gets an outcome other than the plain empty list of a query that
\* matched nothing.
C12_FailureReported ==
  (Retrieved /\ ret.failed) => CallerSees(ret) # <<>>

(***************************************************************************)
(* chunk_by_window followed iteration by iteration                         *)
(***************************************************************************)
\* longest text of the exhaustive part of the inputs
MaxTextLen == 4

\* largest chunk_size (and chunk_overlap) a chunker is constructed with
MaxSize == 5

ChunkAlphabet == {"a", ".", SP, NL}

\* longer texts: a paragraph break in mid-window, words of four letters,
\* sentences, no break point at all, blank edges
LongTexts ==
  { <<"a", "b", NL, NL, "c", "d">>,
    <<"a", "a", "a", "a", SP, "a", "a", "a", SP, "a">>,
    <<"a", "a", "a", ".", SP, "a", "a", ".", SP, "a">>,
    <<"a", ".", NL, "a", "a", "a", ".", SP, "a">>,
    Rep("a", 11),
    <<SP, "a", "a", "a", "a", "a", "a", SP>> }

ChunkInputs ==
  LongTexts \cup UNION { [1..n -> ChunkAlphabet] : n \in 0..MaxTextLen }

\* the (chunk_size, chunk_overlap) pairs a chunker is constructed with:
\* __init__ stores its arguments as they are
ChunkConfigs ==
  { c \in (0..MaxSize) \X (0..MaxSize) : c[2] \in {0, 1, c[1] - 1, c[1]} }

\* 0 <= overlap < size
ValidConfig == chunk_size >= 1 /\ chunk_overlap >= 0 /\ chunk_overlap < chunk_size

\* the end of the window cut in the iteration entered with start:
\* len(text) for the last chunk, else the boundary (WindowChunker); end
\* after the search for a breaking point (EOChunker)
WinEnd(text, size, start) ==
  IF start + size >= Len(text) THEN Len(text)
  ELSE WinBoundary(text, start, start + size, size)

\* mutation: the window takes one character more than chunk_size
WindowEndOneMore(text, start) == Min2(start + chunk_size + 1, Len(text))

WindowEnd(text, start) ==
  IF variant = "bill" THEN WinEnd(text, chunk_size, start)
  ELSE EOEnd(text, start, chunk_size)

NextStart(text, start, end) ==
  IF variant = "bill" THEN WinNextStart(start, chunk_size, chunk_overlap)
  ELSE EONextStart(text, start, end, chunk_overlap)

Looping == chunking.phase = "loop"
ChunkDone == chunking.phase = "done"

\* chunk_by_window(text) is entered.  WindowChunker returns [text] at once
\* for a text no longer than chunk_size; otherwise chunks = [], start = 0.
ChunkCall(text) ==
  /\ chunking.phase = "idle"
  /\ chunking' =
       IF variant = "bill" /\ Len(text) <= chunk_size
       THEN [phase |-> "done", text |-> text, start |-> 0,
             chunks |-> <<text>>, cuts |-> <<<<0, Len(text)>>>>]
       ELSE [phase |-> "loop", text |-> text, start |-> 0,
             chunks |-> <<>>, cuts |-> <<>>]
  /\ UNCHANGED <<config, store, ingest_vars, ret, collection, ctor>>

\* one iteration of "while start < len(text)": the window is cut, its
\* stripped text appended when not empty, start moved on.  cuts keeps the
\* (start, end) of every window cut (of the whole text for the early return
\* of WindowChunker).
ChunkIterate ==
  /\ Looping
  /\ chunking.start < Len(chunking.text)
  /\ LET text  == chunking.text
         start == chunking.start
         end   == WindowEnd(text, start)
         chunk == Strip(Slice(text, start, end))
     IN  chunking' = [chunking EXCEPT
           !.chunks = IF chunk # <<>> THEN Append(@, chunk) ELSE @,
           !.cuts   = Append(@, <<start, end>>),
           !.start  = NextStart(text, start, end)]
  /\ UNCHANGED <<config, store, ingest_vars, ret, collection, ctor>>

\* the loop condition fails: return chunks
ChunkReturn ==
  /\ Looping
  /\ ~(chunking.start < Len(chunking.text))
  /\ chunking' = [chunking EXCEPT !.phase = "done"]
  /\ UNCHANGED <<config, store, ingest_vars, ret, collection, ctor>>

\* a chunker constructed with any configuration, its collection in place
InitChunk ==
  /\ variant \in {"bill", "order"}
  /\ \E c \in ChunkConfigs : chunk_size = c[1] /\ chunk_overlap = c[2]
  /\ store = {}
  /\ pc = [w \in Workers |-> "idle"]
  /\ call = [w \in Workers |-> NoCall]
  /\ points = [w \in Workers |-> <<>>]
  /\ loop_i = [w \in Workers |-> 0]
  /\ outcome = [w \in Workers |-> NoOutcome]
  /\ hist = [w \in Workers |-> NoHist]
  /\ ret = NoRet
  /\ collection = [exists |-> TRUE, size |-> 1]
  /\ ctor = Constructed(1, "exists")
  /\ chunking = NoChunking

NextChunk ==
  \/ \E t \in ChunkInputs : ChunkCall(t)
  \/ ChunkIterate
  \/ ChunkReturn

SpecChunk == InitChunk /\ [][NextChunk]_vars

\* the texts of the runs followed to their end: the longer texts and
\* every text of letters and spaces
RunInputs ==
  LongTexts \cup UNION { [1..n -> {"a", SP}] : n \in 0..MaxTextLen }

NextChunkRun ==
  \/ \E t \in RunInputs : ChunkCall(t)
  \/ ChunkIterate
  \/ ChunkReturn

\* the interpreter keeps running a call that has been entered
SpecChunkRun ==
  InitChunk /\ [][NextChunkRun]_vars /\ WF_vars(ChunkIterate \/ ChunkReturn)

\* the iterations yield the list the operators above compute in one go
ChunkLoopAgrees ==
  ChunkDone => chunking.chunks = chunk_by_window(chunking.text)

\* C13: for every size >= 1 and every overlap >= 0, overlap >= size
\* included, every iteration of the loop of chunk_by_window leaves start
\* larger than it found it, and the call returns.
C13_Terminates ==
  /\ [][(chunk_size >= 1 /\ Looping /\ chunking'.phase = "loop")
          => chunking'.start > chunking.start]_vars
  /\ (chunk_size >= 1 /\ Looping) ~> ChunkDone

\* a call with overlap >= size that returned after three or more windows
C13_Witness ==
  /\ ChunkDone
  /\ chunk_size >= 1 /\ chunk_overlap >= chunk_size
  /\ Len(chunking.cuts) >= 3

\* every chunk of the returned list is non-empty and str.strip() leaves it
\* as it is
AllTrimmed(chunks) ==
  \A k \in 1..Len(chunks) : chunks[k] # <<>> /\ Strip(chunks[k]) = chunks[k]

\* C14: for every text and every valid (size, overlap), every chunk
\* returned by chunk_by_window is non-empty and has no leading or trailing
\* whitespace, and the empty text yields the empty sequence.
C14_ChunksTrimmed ==
  (ChunkDone /\ ValidConfig) =>
    /\ AllTrimmed(chunking.chunks)
    /\ chunking.text = <<>> => chunking.chunks = <<>>

\* the text is what preprocess_text hands to chunk_by_window
Normalized(text) == preprocess_text(text) = text

\* the 0-based position p lies in a window that was cut
InWindow(p) ==
  \E k \in 1..Len(chunking.cuts) :
    chunking.cuts[k][1] <= p /\ p < chunking.cuts[k][2]

\* C15: for valid (size, overlap) and a normalized text, each window after
\* the first starts at or before the end of the window before it, and
\* every character that is not whitespace lies in a window.
C15_EveryCharacterCovered ==
  (ChunkDone /\ ValidConfig /\ Normalized(chunking.text)) =>
    /\ \A k \in 2..Len(chunking.cuts) :
         chunking.cuts[k][1] <= chunking.cuts[k - 1][2]
    /\ \A p \in 0..(Len(chunking.text) - 1) :
         ~IsSpace(chunking.text[p + 1]) => InWindow(p)

\* ceil(a / b) for a >= 0, b >= 1
CeilDiv(a, b) == (a + b - 1) \div b

\* C16: for every text and every (size, overlap) with 0 <= overlap < size
\* the number of chunks returned by chunk_by_window is at most
\* ceil(len(text) / (size - overlap)).
C16_ChunkCountBounded ==
  (ChunkDone /\ ValidConfig) =>
    Len(chunking.chunks) <= CeilDiv(Len(chunking.text), chunk_size - chunk_overlap)

\* C17: for every text T with len(T) <= size, chunk_by_window(T) is
\* [T.strip()]: one chunk, trimmed.
C17_ShortTextOneChunk ==
  (ChunkDone /\ ValidConfig /\ Len(chunking.text) <= chunk_size) =>
    chunking.chunks = <<Strip(chunking.text)>>

(***************************************************************************)
(* Ingest of an empty document                                             *)
(***************************************************************************)
\* worker w is in, or has finished, an ingest of a text that is empty
\* after preprocess_text
IngestsEmpty(w) ==
  pc[w] # "idle" /\ preprocess_text(call[w].text) = <<>>

\* C18: the ingest of a document whose text is empty, or empty after
\* preprocessing, sends no upsert and returns (0, 0).
C18_EmptyDocument ==
  \A w \in Workers :
    IngestsEmpty(w) =>
      /\ hist[w].log = <<>>
      /\ Returned(w) => outcome[w].value = <<0, 0>>

(***************************************************************************)
(* Construction of a chunker: WindowChunker.__init__ / EOChunker.__init__  *)
(* with _ensure_collection_exists                                          *)
(***************************************************************************)
\* largest vector size of an embedder or of a collection found in the store
MaxDim == 2

Absent == [exists |-> FALSE, size |-> 0]
Collection(size) == [exists |-> TRUE, size |-> size]

\* __init__ has been entered: chunk_size and chunk_overlap are stored as
\* given, the embedder is loaded (its dimension is self.vector_size), the
\* client is made; _ensure_collection_exists is about to run
Constructing(vector_size) ==
  [phase |-> "new", vector_size |-> vector_size, said |-> "nothing"]

\* _ensure_collection_exists, no request failing: the collection is created
\* with the embedder's dimension when collection_exists says it is not
\* there; otherwise "already exists" is printed.  __init__ then returns.
ensure_collection_exists ==
  /\ ctor.phase = "new"
  /\ IF ~collection.exists
     THEN /\ collection' = Collection(ctor.vector_size)
          /\ ctor' = Constructed(ctor.vector_size, "created")
     ELSE /\ collection' = collection
          /\ ctor' = Constructed(ctor.vector_size, "exists")
  /\ UNCHANGED <<config, store, ingest_vars, ret, chunking>>

\* _ensure_collection_exists, collection_exists or create_collection
\* raising: except Exception prints the error; __init__ returns
ensure_collection_exists_error ==
  /\ ctor.phase = "new"
  /\ ctor' = Constructed(ctor.vector_size, "error")
  /\ UNCHANGED <<config, store, ingest_vars, ret, collection, chunking>>

\* the constructor is called with any arguments, the store holding no
\* collection of the name or one of any vector size
InitConstruct ==
  /\ variant \in {"bill", "order"}
  /\ \E c \in ChunkConfigs : chunk_size = c[1] /\ chunk_overlap = c[2]
  /\ store = {}
  /\ pc = [w \in Workers |-> "idle"]
  /\ call = [w \in Workers |-> NoCall]
  /\ points = [w \in Workers |-> <<>>]
  /\ loop_i = [w \in Workers |-> 0]
  /\ outcome = [w \in Workers |-> NoOutcome]
  /\ hist = [w \in Workers |-> NoHist]
  /\ ret = NoRet
  /\ collection \in {Absent} \cup {Collection(n) : n \in 1..MaxDim}
  /\ \E n \in 1..MaxDim : ctor = Constructing(n)
  /\ chunking = NoChunking

\* the constructed chunker is used
NextConstruct ==
  \/ ensure_collection_exists
  \/ ensure_collection_exists_error
  \/ ctor.phase = "constructed" /\ \E t \in LongTexts : ChunkCall(t)
  \/ ChunkIterate
  \/ ChunkReturn

SpecConstruct == InitConstruct /\ [][NextConstruct]_vars

\* C19: a chunker with size <= 0 or overlap >= size is rejected at
\* construction: no constructor returns a chunker with such parameters and
\* chunk_by_window never runs with them.
C19_InvalidConfigRejected ==
  (ctor.phase = "constructed" \/ chunking.phase # "idle") => ValidConfig

\* a step of _ensure_collection_exists in which no request fails
Ensures == ctor.phase = "new" /\ ctor'.phase # "new" /\ ctor'.said # "error"

C20_Step ==
  Ensures =>
    /\ ~collection.exists => collection' = Collection(ctor.vector_size)
    /\ (collection.exists /\ collection.size = ctor.vector_size) =>
         collection' = collection /\ ctor'.phase = "constructed"
    /\ (collection.exists /\ collection.size # ctor.vector_size) =>
         ctor'.phase = "raised"

\* C20: ensure_collection creates the collection when it is absent,
\* changes nothing when it exists with the embedder's dimension, and raises
\* a configuration error to the caller when it exists with another
\* dimension.
C20_EnsureCollection == [][C20_Step]_vars

(***************************************************************************)
(* Point ids across the ingestion paths                                    *)
(***************************************************************************)
\* a stored point is replaced in the step by a point of the same id
Overwrites(q, p) == q.id = p.id /\ q # p

\* C21: the id of a stored chunk is determined by its document and its
\* position in the document alone, different (document, position) pairs
\* have different ids, and so no step of an ingestion overwrites a stored
\* point of another document.
C21_NoForeignOverwrite ==
  [][\A p \in store : \A q \in store' : Overwrites(q, p) => q.doc = p.doc]_vars

(***************************************************************************)
(* Enumerating the collection: list_all_orders, /list_executive_orders and *)
(* the paginated scroll loops of test_bill_qa and check_qdrant_collections *)
(***************************************************************************)
\* limit=10000 of the single scroll request of the two listings, scaled
list_limit == 3

\* limit = 100 of the scroll loops, scaled
scroll_limit == 2

\* most points the enumerated collection holds
MaxPoints == 5

\* the collections enumerated: document A with a chunks, B with b chunks
ListStores ==
  { {PointStruct("A", k, <<"x">>) : k \in 0..(ab[1] - 1)} \cup
    {PointStruct("B", k, <<"x">>) : k \in 0..(ab[2] - 1)} :
    ab \in {c \in (0..MaxPoints) \X (0..MaxPoints) : c[1] + c[2] =< MaxPoints} }

\* scroll delivers the points in the order of their ids.  The ids are
\* hashes, so any order can be the one; the points of one document carry
\* the same payload field and are taken in index order among themselves.
ScrollOrders(S) ==
  LET n == Cardinality(S)
      At(d, idx) == CHOOSE p \in S : p.doc = d /\ p.chunk_index = idx
      Before(P, k) == Cardinality({j \in P : j < k})
  IN  { [k \in 1..n |-> IF k \in P THEN At("A", Before(P, k))
                        ELSE At("B", Before((1..n) \ P, k))] :
        P \in {Q \in SUBSET (1..n) : Cardinality(Q) = Cardinality(DocPoints(S, "A"))} }

\* no offset: offset=None in a request, next_page_offset None in a response
NoOffset == 0

\* qdrant.scroll(limit, offset)[0]: up to limit points from the offset on,
\* from the first point when no offset is given
ScrollBatch(order, offset, limit) ==
  LET from == IF offset = NoOffset THEN 1 ELSE offset
  IN  SubSeq(order, from, Min2(from + limit - 1, Len(order)))

\* qdrant.scroll(limit, offset)[1]: where the next page starts, no offset
\* once the last point has been delivered
ScrollNextOffset(order, offset, limit) ==
  LET from == IF offset = NoOffset THEN 1 ELSE offset
  IN  IF from + limit =< Len(order) THEN from + limit ELSE NoOffset

\* sorted(list(order_ids)) of the set built from the payloads of a batch
DocOrder == <<"A", "B">>
SortedIds(batch) ==
  SelectSeq(DocOrder, LAMBDA d : \E k \in 1..Len(batch) : batch[k].doc = d)

\* list_all_orders and the /list_executive_orders handler: one scroll
\* request with limit=10000, the ids of its points returned sorted
list_orders(op) ==
  /\ ret = NoRet
  /\ \E order \in ScrollOrders(store) :
       ret' = [op |-> op, failed |-> FALSE,
               results |-> SortedIds(ScrollBatch(order, NoOffset, list_limit))]
  /\ UNCHANGED <<config, chunker_vars, store, ingest_vars>>

\* the scroll request raises: list_all_orders returns [], the handler
\* answers 500
list_orders_fail(op) ==
  /\ ret = NoRet
  /\ ret' = [op |-> op, failed |-> TRUE, results |-> <<>>]
  /\ UNCHANGED <<config, chunker_vars, store, ingest_vars>>

ListOps == {"list_all_orders", "list_executive_orders"}

\* offset = None; limit = 100; while True:
\* visits counts, up to "more than once", how often the loop has taken
\* each point into its result
ScrollStart ==
  /\ ret = NoRet
  /\ \E order \in ScrollOrders(store) :
       ret' = [op |-> "scroll", phase |-> "loop", order |-> order,
               offset |-> NoOffset, visits |-> [p \in store |-> 0],
               batch |-> <<>>, next |-> NoOffset]
  /\ UNCHANGED <<config, chunker_vars, store, ingest_vars>>

\* the request of an iteration: scroll_result = qdrant.scroll(limit=limit,
\* offset=offset)
ScrollRequest ==
  /\ ret.op = "scroll" /\ ret.phase = "loop"
  /\ ret' = [ret EXCEPT
       !.phase = "page",
       !.batch = ScrollBatch(ret.order, ret.offset, scroll_limit),
       !.next  = ScrollNextOffset(ret.order, ret.offset, scroll_limit)]
  /\ UNCHANGED <<config, chunker_vars, store, ingest_vars>>

\* the rest of the iteration: "if not batch: break", the batch taken into
\* the result, offset = scroll_result[1], "if len(batch) < limit: break"
ScrollTake ==
  /\ ret.op = "scroll" /\ ret.phase = "page"
  /\ LET taken == {ret.batch[k] : k \in 1..Len(ret.batch)}
     IN  IF ret.batch = <<>>
         THEN ret' = [ret EXCEPT !.phase = "done"]
         ELSE ret' = [ret EXCEPT
                !.visits = [p \in store |->
                              IF p \in taken THEN Min2(@[p] + 1, 2) ELSE @[p]],
                !.offset = ret.next,
                !.phase = IF Len(ret.batch) < scroll_limit THEN "done" ELSE "loop"]
  /\ UNCHANGED <<config, chunker_vars, store, ingest_vars>>

\* the collection holds the points of earlier ingests; nothing is running
InitList ==
  /\ variant \in {"bill", "order"}
  /\ chunk_size = 1 /\ chunk_overlap = 0
  /\ store \in ListStores
  /\ pc = [w \in Workers |-> "idle"]
  /\ call = [w \in Workers |-> NoCall]
  /\ points = [w \in Workers |-> <<>>]
  /\ loop_i = [w \in Workers |-> 0]
  /\ outcome = [w \in Workers |-> NoOutcome]
  /\ hist = [w \in Workers |-> NoHist]
  /\ ret = NoRet
  /\ collection = Collection(1)
  /\ ctor = Constructed(1, "exists")
  /\ chunking = NoChunking

\* the order listings read executive_order_chunks; the loop of
\* test_bill_qa reads bill_chunks, that of check_qdrant_collections
\* executive_order_chunks
NextList ==
  \/ \E op \in ListOps : variant = "order" /\ list_orders(op)
  \/ \E op \in ListOps : variant = "order" /\ list_orders_fail(op)
  \/ ScrollStart
  \/ ScrollRequest
  \/ ScrollTake
  \/ (ret.op = "scroll" => ret.phase = "done") /\ TakeResult

\* the interpreter keeps running a loop that has been entered
SpecList ==
  InitList /\ [][NextList]_vars /\ WF_vars(ScrollRequest) /\ WF_vars(ScrollTake)

Listed    == ret.op \in ListOps /\ ~ret.failed
Scrolling == ret.op = "scroll" /\ ret.phase \in {"loop", "page"}
Scrolled  == ret.op = "scroll" /\ ret.phase = "done"

\* C22: the listing of document ids returns every document that has a
\* stored point, exactly once, however many points the collection holds.
C22_ListsEveryDocument ==
  Listed =>
    /\ \A p \in store : \E k \in 1..Len(ret.results) : ret.results[k] = p.doc
    /\ \A j, k \in 1..Len(ret.results) : ret.results[j] = ret.results[k] => j = k

\* C30: the paginated scroll loop ends for every collection size, an
\* exact multiple of the page limit included, and when it has ended it
\* has taken every stored point exactly once.
C30_ScrollLoopTerminates ==
  /\ Scrolling ~> Scrolled
  /\ [](Scrolled => \A p \in store : ret.visits[p] = 1)

(***************************************************************************)
(* preprocess_text of the three chunkers                                   *)
(***************************************************************************)
\* most pieces (a letter, a blank, a newline, a form feed, a section
\* header) a raw text is put together from
MaxPieces == 4

SecHeader == <<"S", "E", "C", ".", SP, "1", ".">>

RECURSIVE Concat(_)
Concat(pieces) ==
  IF pieces = <<>> THEN <<>> ELSE Head(pieces) \o Concat(Tail(pieces))

\* raw texts handed to preprocess_text
RawTexts ==
  UNION { { Concat(ps) : ps \in [1..n -> {<<"a">>, <<SP>>, <<NL>>, <<FF>>, SecHeader}] } :
          n \in 0..MaxPieces }

\* SEC\. \d+\. matched with its first character at index h (1-based):
\* the index of its closing period, 0 when there is no match
HeaderEnd(text, h) ==
  IF h + 6 > Len(text) \/ SubSeq(text, h, h + 4) # <<"S", "E", "C", ".", SP>>
  THEN 0
  ELSE LET last == SetMin({q \in (h + 5)..(Len(text) + 1) :
                             q = Len(text) + 1 \/ ~IsDigit(text[q])}) - 1
       IN  IF last >= h + 5 /\ last < Len(text) /\ text[last + 1] = "."
           THEN last + 1 ELSE 0

\* ([^\n])(SEC\. \d+\.) matches with the character at index m as group 1
HeaderMatch(text, m) == text[m] # NL /\ HeaderEnd(text, m + 1) > 0

\* the group-1 positions of the matches re.sub finds: leftmost first, the
\* scan going on behind the end of each match
RECURSIVE HeaderMatches(_, _)
HeaderMatches(text, pos) ==
  LET at == {m \in pos..(Len(text) - 1) : HeaderMatch(text, m)}
  IN  IF at = {} THEN {}
      ELSE {SetMin(at)} \cup HeaderMatches(text, HeaderEnd(text, SetMin(at) + 1) + 1)

RECURSIVE BreakAfter(_, _, _)
BreakAfter(text, at, j) ==
  IF j = 0 THEN <<>>
  ELSE BreakAfter(text, at, j - 1) \o
       (IF j \in at THEN <<text[j], NL>> ELSE <<text[j]>>)

\* re.sub(r'([^\n])(SEC\. \d+\.)', r'\1\n\2', text)
HeadersOnOwnLine(text) == BreakAfter(text, HeaderMatches(text, 1), Len(text))

\* BillChunker.preprocess_text (src/document_chunking.py)
BillChunker_preprocess_text(text) ==
  Strip(HeadersOnOwnLine(CollapseBlankLines(ReplaceFF(text))))

\* preprocess_text of the chunker of the running variant
PreprocessText(text) ==
  IF variant = "gpt" THEN BillChunker_preprocess_text(text)
  ELSE preprocess_text(text)

\* cleaned = chunker.preprocess_text(text)
Preprocess(x) ==
  /\ ret = NoRet
  /\ ret' = [op |-> "preprocess_text", passes |-> 1, raw |-> x,
             given |-> x, text |-> PreprocessText(x)]
  /\ UNCHANGED <<config, chunker_vars, store, ingest_vars>>

\* the cleaned text is handed to preprocess_text again
PreprocessAgain ==
  /\ ret.op = "preprocess_text" /\ ret.passes = 1
  /\ ret' = [ret EXCEPT !.passes = 2, !.given = ret.text,
                        !.text = PreprocessText(ret.text)]
  /\ UNCHANGED <<config, chunker_vars, store, ingest_vars>>

InitPreprocess ==
  /\ InitWith({"bill", "order", "gpt"})
  /\ chunk_size = 1 /\ chunk_overlap = 0

NextPreprocess ==
  \/ \E x \in RawTexts : Preprocess(x)
  \/ PreprocessAgain
  \/ TakeResult

SpecPreprocess == InitPreprocess /\ [][NextPreprocess]_vars

\* C23: preprocess_text is idempotent in every chunker: applied to its
\* own result it returns that result unchanged.
C23_PreprocessIdempotent ==
  (ret.op = "preprocess_text" /\ ret.passes = 2) => ret.text = ret.given

(***************************************************************************)
(* Executive-order queries: query_order and search_all_orders              *)
(***************************************************************************)
\* qdrant.search(query_vector, limit) without a filter: the limit nearest
\* of all points of the collection
SearchAll(S, sc, limit) ==
  LET n == Min2(limit, Cardinality(S))
  IN  { [k \in 1..n |-> Hit(h[k], sc)] : h \in SearchRankings(S, sc, n) }

\* ExecutiveOrderQuerier.search_all_orders(query, top_k), no exception:
\* (order_id, chunk_text, score) of every hit
search_all_orders(q, top_k) ==
  /\ variant = "order"
  /\ \E sc \in [TextsOf(store) -> Scores] :
       \E h \in SearchAll(store, sc, top_k) :
         ret' = [op |-> "search_all_orders", top_k |-> top_k, hits |-> h,
                 results |-> [k \in 1..Len(h) |->
                                [order_id |-> h[k].doc, text |-> h[k].text,
                                 score |-> h[k].score]],
                 failed |-> FALSE]
  /\ UNCHANGED <<config, chunker_vars, store, ingest_vars>>

\* search_all_orders: the embedder or the search raises; except: return []
search_all_orders_fail(q, top_k) ==
  /\ variant = "order"
  /\ ret' = [op |-> "search_all_orders", top_k |-> top_k, hits |-> <<>>,
             results |-> <<>>, failed |-> TRUE]
  /\ UNCHANGED <<config, chunker_vars, store, ingest_vars>>

\* one client of the executive orders: it ingests, then queries one order
\* or searches all of them
NextOrders ==
  \/ /\ ret = NoRet
     /\ \/ \E d \in Docs, t \in QueryTexts : Start("w1", d, t)
        \/ Step("w1")
        \/ \E d \in QueryDocs, k \in 0..MaxTopK :
             \/ query_order(d, <<"x">>, k)
             \/ query_order_fail(d, <<"x">>, k)
        \/ \E k \in 0..MaxTopK :
             \/ search_all_orders(<<"x">>, k)
             \/ search_all_orders_fail(<<"x">>, k)
  \/ TakeResult

SpecOrders == InitWith({"order"}) /\ [][NextOrders]_vars

OrderQueried == ret.op \in {"query_order", "search_all_orders"}

\* C24: the entries returned by query_order and by search_all_orders have
\* pairwise different texts, also when two stored chunks have one text.
C24_OrderResultsDeduplicated ==
  OrderQueried =>
    \A j, k \in 1..Len(ret.results) :
      ret.results[j].text = ret.results[k].text => j = k

(***************************************************************************)
(* The merge of the hybrid retrieve                                        *)
(***************************************************************************)
\* the entries of a list whose text no earlier entry of the list has
FirstOccurrences(cand) ==
  LET at == [k \in 1..Len(cand) |-> <<k, cand[k]>>]
      New(p) == \A j \in 1..(p[1] - 1) : cand[j].text # p[2].text
      kept == SelectSeq(at, New)
  IN  [k \in 1..Len(kept) |-> kept[k][2]]

\* the explicit-section hit, if any, followed by the primary-search hits
\* in the order the store returned them
Candidates(r) ==
  (IF r.section_hits # <<>> THEN <<Entry(r.section_hits[1])>> ELSE <<>>)
  \o [k \in 1..Len(r.hits) |-> Entry(r.hits[k])]

NoBreakPoint(text) ==
  \A k \in 1..Len(text) : ~IsSpace(text[k]) /\ text[k] \notin {".", "!", "?"}

\* the windows starting at 0, s, 2s, ... with s = size - overlap, up to
\* and including the first one that reaches the end of a text of length L
HardCutWindows(L, size, overlap) ==
  LET s == size - overlap
      n == SetMin({k \in 0..L : k * s + size >= L})
  IN  [k \in 1..(n + 1) |-> <<(k - 1) * s, Min2((k - 1) * s + size, L)>>]

\* C26: on a text longer than size that has no whitespace and no
\* punctuation, chunk_by_window cuts the windows starting at 0, s, 2s, ...
\* (s = size - overlap), ends with the first window that reaches the end
\* of the text and returns one chunk per window.
C26_HardCuts ==
  ( /\ ChunkDone /\ ValidConfig
    /\ Len(chunking.text) > chunk_size /\ NoBreakPoint(chunking.text) )
  => /\ chunking.cuts = HardCutWindows(Len(chunking.text), chunk_size, chunk_overlap)
     /\ chunking.chunks = [k \in 1..Len(chunking.cuts) |->
                             Slice(chunking.text, chunking.cuts[k][1], chunking.cuts[k][2])]

\* C29: for every text, every size >= 1 and every overlap >= 0, no chunk
\* returned by chunk_by_window is longer than size.
C29_ChunksBounded ==
  (ChunkDone /\ chunk_size >= 1) =>
    \A k \in 1..Len(chunking.chunks) : Len(chunking.chunks[k]) =< chunk_size

\* a call that cut one window at a break point, short of chunk_size, and
\* returned another chunk of exactly chunk_size characters
C29_Witness ==
  /\ ChunkDone /\ chunk_size >= 2
  /\ \E k \in 1..Len(chunking.cuts) :
       /\ chunking.cuts[k][2] < chunking.cuts[k][1] + chunk_size
       /\ chunking.cuts[k][2] < Len(chunking.text)
  /\ \E k \in 1..Len(chunking.chunks) : Len(chunking.chunks[k]) = chunk_size

(***************************************************************************)
(* Concurrent ingests of one document; a failing delete                    *)
(***************************************************************************)
\* both workers have ingested the same document, from different texts,
\* their calls overlapping in time, and both calls have returned without
\* a failed request
BothReturned ==
  /\ \A w \in Workers : ReturnedOk(w) /\ hist[w].clash
  /\ call["w1"].doc = call["w2"].doc
  /\ call["w1"].text # call["w2"].text

\* C27: when two concurrent ingests of one document with different texts
\* have both completed without error, the document's stored points are
\* the complete chunk set of one of the two texts, not a mixture.
C27_NoMixture ==
  BothReturned =>
    \E w \in Workers : DocPoints(store, call[w].doc) = NewPoints(w)

\* C28: when the delete-by-filter request of an ingest fails, the call
\* sends no upsert batch and the store, the document's earlier points and
\* those of every other document, is as it was when the call began.
C28_DeleteFailureWritesNothing ==
  \A w \in Workers :
    hist[w].err = "delete" =>
      /\ hist[w].log = <<>>
      /\ store = hist[w].pre

\* the delete has failed in a re-ingest, two batches to send, of a
\* document that has points, next to another document's points; the call
\* has returned
C28_Witness ==
  /\ hist["w1"].err = "delete" /\ pc["w1"] = "done"
  /\ Len(points["w1"]) > batch_size
  /\ DocPoints(store, call["w1"].doc) # {}
  /\ DocPoints(store, call["w1"].doc) # NewPoints("w1")
  /\ store \ DocPoints(store, call["w1"].doc) # {}

=============================================================================
